---- MODULE Spec2Model ----
(***************************************************************************)
(* Model of src/main.py: the moderation webhook handle_webhook and its     *)
(* helper analyze_severity.  One behaviour is one request: the request is  *)
(* chosen in Init, and the handler advances through the positions          *)
(*   Start -> Normalized -> Extracted -> Classified -> Decided.            *)
(* Texts are TLA+ strings; JSON values are records tagged by `kind`.       *)
(***************************************************************************)
EXTENDS Integers, Sequences, FiniteSets, TLC

VARIABLES
    request,          \* the inbound HTTP request (body of POST /webhook)
    pc,               \* position of the handler
    message_object,   \* payload of the last window entry (line 59)
    msg_type,         \* kind of the current message (lines 62-64)
    content,          \* <<>> or <<text/bytes to classify>>, before truncation
    downloads,        \* sequence of requests.get calls made (url, outcome)
    submitted,        \* sequence of backend calls made (api, text)
    result,           \* <<>> or <<categories_analysis>> of a completed call
    block_level,      \* <<>> or <<threshold passed to analyze_severity>>
    violation_found,  \* line 66
    reason_msg,       \* line 67
    returned,         \* sequence of responses returned to the caller
    propagated,       \* TRUE iff an exception left handle_webhook
    faults            \* failures the environment produced during the request

vars == <<request, pc, message_object, msg_type, content, downloads, submitted,
          result, block_level, violation_found, reason_msg, returned,
          propagated, faults>>

----------------------------------------------------------------------------
(* Bounds of the model *)

MaxHistory == 1      \* window entries before the current message
MaxCats == 2         \* categories in one classification result
MaxDocPages == 4     \* pages / paragraphs of a downloaded document

(* Program constants *)

MaxChars == 1000         \* [:1000]
MaxPages == 3            \* reader.pages[:3]
ImageBlockLevel == 2
FileBlockLevel == 2
TextBlockLevel == 4
BlockedConfidence == 95  \* 0.95, in hundredths
SafeConfidence == 98     \* 0.98, in hundredths

----------------------------------------------------------------------------
(* Python string helpers *)

Min(a, b) == IF a <= b THEN a ELSE b

\* s[:n]
Slice(s, n) == SubSeq(s, 1, Min(n, Len(s)))

RECURSIVE LStrip(_)
LStrip(s) ==
    IF Len(s) = 0 THEN s
    ELSE IF SubSeq(s, 1, 1) = " " THEN LStrip(SubSeq(s, 2, Len(s)))
    ELSE s

RECURSIVE RStrip(_)
RStrip(s) ==
    IF Len(s) = 0 THEN s
    ELSE IF SubSeq(s, Len(s), Len(s)) = " " THEN RStrip(SubSeq(s, 1, Len(s) - 1))
    ELSE s

\* str.strip()
Strip(s) == RStrip(LStrip(s))

\* `sub in s`
Contains(s, sub) ==
    \E i \in 1..(Len(s) - Len(sub) + 1) : SubSeq(s, i, i + Len(sub) - 1) = sub

LowerChar(c) ==
    CASE c = "P" -> "p"
      [] c = "D" -> "d"
      [] c = "F" -> "f"
      [] c = "O" -> "o"
      [] c = "C" -> "c"
      [] c = "X" -> "x"
      [] c = "T" -> "t"
      [] c = "E" -> "e"
      [] OTHER -> c

\* str.lower()
RECURSIVE Lower(_)
Lower(s) ==
    IF Len(s) = 0 THEN s
    ELSE LowerChar(SubSeq(s, 1, 1)) \o Lower(SubSeq(s, 2, Len(s)))

----------------------------------------------------------------------------
(* JSON values *)

Absent == [kind |-> "absent"]                 \* key not in the dict
Null == [kind |-> "null"]
JStr(s) == [kind |-> "str", val |-> s]
JList(items) == [kind |-> "list", items |-> items]

\* the `data` object of a structured payload
Data(text, url, extension, type) ==
    [kind |-> "dict", text |-> text, url |-> url, extension |-> extension,
     type |-> type]

EmptyDict == Data(Absent, Absent, Absent, Absent)

\* a structured payload
Msg(type, data) == [kind |-> "dict", type |-> type, data |-> data]

\* one window entry {sender_uid: payload}
Entry(uid, message) == [uid |-> uid, message |-> message]

\* dict.get(key, default)
Get(d, key, default) == IF d[key].kind = "absent" THEN default ELSE d[key]

\* truth value of a JSON value used as a condition
Truthy(v) ==
    CASE v.kind = "absent" -> FALSE
      [] v.kind = "null" -> FALSE
      [] v.kind = "str" -> Len(v.val) > 0
      [] v.kind = "list" -> Len(v.items) > 0
      [] OTHER -> TRUE

----------------------------------------------------------------------------
(* analyze_severity and the responses *)

\* f"{item.category} (Level {item.severity})"
FormatReason(item) ==
    item.category \o " (Level " \o ToString(item.severity) \o ")"

\* the verdict of analyze_severity on `cats` starting at index i
RECURSIVE ScanFrom(_, _, _)
ScanFrom(cats, i, level) ==
    IF i > Len(cats) THEN [found |-> FALSE, reason |-> ""]
    ELSE IF cats[i].severity >= level
         THEN [found |-> TRUE, reason |-> FormatReason(cats[i])]
         ELSE ScanFrom(cats, i + 1, level)

\* variant: the comparison is strict (severity > block_level)
RECURSIVE ScanStrict(_, _, _)
ScanStrict(cats, i, level) ==
    IF i > Len(cats) THEN [found |-> FALSE, reason |-> ""]
    ELSE IF cats[i].severity > level
         THEN [found |-> TRUE, reason |-> FormatReason(cats[i])]
         ELSE ScanStrict(cats, i + 1, level)

analyze_severity_strict(categories_analysis, level) ==
    ScanStrict(categories_analysis, 1, level)

analyze_severity(categories_analysis, level) ==
    ScanFrom(categories_analysis, 1, level)

\* variant: the empty window is answered with a block
EmptyResponseBlocked == [isMatchingCondition |-> TRUE]

\* return {"isMatchingCondition": False}  (empty window)
EmptyResponse == [isMatchingCondition |-> FALSE]

\* the RETURN DECISION block
FinalResponse(found, reason) ==
    IF found
    THEN [isMatchingCondition |-> TRUE, confidence |-> BlockedConfidence,
          reason |-> reason]
    ELSE [isMatchingCondition |-> FALSE, confidence |-> SafeConfidence,
          reason |-> "Safe"]

\* variant: the top-level handler lets the exception through
CriticalErrorReraised == [returned |-> <<>>, propagated |-> TRUE]

\* except Exception: log and return {"isMatchingCondition": False}
CriticalError ==
    [returned |-> <<[isMatchingCondition |-> FALSE]>>, propagated |-> FALSE]

\* variant: the verdict starts out as a violation
ViolationByDefault == [found |-> TRUE, reason |-> ""]

\* violation_found = False ; reason_msg = ""
NoViolation == [found |-> FALSE, reason |-> ""]

\* variant: the slice keeps one character too many
TruncateOneMore(text) == Slice(text, MaxChars + 1)

\* text[:1000]
Truncate(text) == Slice(text, MaxChars)

----------------------------------------------------------------------------
(* Normalisation: lines 56-64 and the branch conditions of lines 72, 99, 144 *)

IsDict(v) == v.kind = "dict"

\* msg_type of the current message
MsgTypeOf(m) ==
    IF IsDict(m) THEN Get(m, "type", JStr("text")).val ELSE "text"

\* which of PATH A / PATH B / PATH C handles the message
PathOf(type, m) ==
    IF type = "image" /\ IsDict(m) THEN "image"
    ELSE IF type = "file" /\ IsDict(m) THEN "file"
    ELSE "text"

\* block_level passed to analyze_severity on each path
BlockLevelOf(path) ==
    CASE path = "image" -> ImageBlockLevel
      [] path = "file" -> FileBlockLevel
      [] OTHER -> TextBlockLevel

\* the backend operation called on each path
ApiOf(path) == IF path = "image" THEN "analyze_image" ELSE "analyze_text"

----------------------------------------------------------------------------
(* PATH C: the accumulation loop *)

\* value['data'].get('text', '') raises AttributeError unless data is a dict
EntryRaises(value) ==
    IsDict(value) /\ value.data.kind # "absent" /\ ~IsDict(value.data)

\* what one entry appends to combined_text
EntryText(value) ==
    IF value.kind = "str" THEN value.val \o ". "
    ELSE IF IsDict(value) /\ value.data.kind # "absent"
         THEN Get(value.data, "text", JStr("")).val \o ". "
         ELSE ""

\* combined_text after the loop over context_list[i..]; exc when the loop raised
RECURSIVE CombineFrom(_, _, _)
CombineFrom(context_list, i, acc) ==
    IF i > Len(context_list) THEN [exc |-> FALSE, text |-> acc]
    ELSE IF EntryRaises(context_list[i].message) THEN [exc |-> TRUE, text |-> acc]
    ELSE CombineFrom(context_list, i + 1,
                     acc \o EntryText(context_list[i].message))

CombineText(context_list) == CombineFrom(context_list, 1, "")

----------------------------------------------------------------------------
(* PATH B: text extraction *)

\* extracted_text += page.extract_text() + " "
RECURSIVE JoinPages(_)
JoinPages(pages) ==
    IF Len(pages) = 0 THEN ""
    ELSE Head(pages) \o " " \o JoinPages(Tail(pages))

\* reader.pages[:3]
FirstPages(doc) == SubSeq(doc, 1, Min(MaxPages, Len(doc)))

\* which extractor the lower-cased extension selects
ExtractorOf(file_ext) ==
    IF Contains(file_ext, "pdf") THEN "pdf"
    ELSE IF Contains(file_ext, "doc") THEN "doc"
    ELSE IF Contains(file_ext, "txt") THEN "txt"
    ELSE "none"

----------------------------------------------------------------------------
(* Inputs: the requests and the answers of the environment *)

Url == "http://x/y"

\* n copies of s
RECURSIVE Rep(_, _)
Rep(s, n) ==
    IF n = 0 THEN ""
    ELSE IF n % 2 = 0 THEN LET h == Rep(s, n \div 2) IN h \o h
    ELSE s \o Rep(s, n - 1)

\* a text of exactly n >= 1 characters whose last character differs
LongText(n) == Rep("a", n - 1) \o "z"

\* legacy message texts; with the ". " separator the last two give MaxChars
\* and MaxChars + 1 characters
MsgTexts == {"", "hi", LongText(MaxChars - 2), LongText(MaxChars - 1)}

\* bodies of a downloaded .txt file
TxtBodies == {"", "  ", "hi", LongText(MaxChars), LongText(MaxChars + 1)}

ImageBodies == {"png-bytes"}

\* documents: the text of each page (PDF) or paragraph (DOCX)
Docs == {[i \in 1..n |-> "hi"] : n \in 0..MaxDocPages}

Extensions == {Absent, JStr("PDF"), JStr("docx"), JStr("txt"), JStr("exe")}

UrlOnly == Data(Absent, JStr(Url), Absent, Absent)

TextPayloads ==
    {JStr(t) : t \in MsgTexts}
    \cup {Msg(ty, d) : ty \in {Absent, JStr("text")},
                       d \in {JStr("hi"), Data(JStr("yo"), Absent, Absent, Absent)}}
    \cup {Msg(Absent, Absent),
          Msg(Absent, Data(Absent, JStr(Url), Absent, JStr("image")))}

ImagePayloads ==
    {Msg(JStr("image"), d) :
        d \in {Absent, Null, EmptyDict, UrlOnly,
               Data(JStr("cap"), JStr(Url), Absent, Absent)}}

FilePayloads ==
    {Msg(JStr("file"), Data(Absent, JStr(Url), e, Absent)) : e \in Extensions}
    \cup {Msg(JStr("file"), Absent),
          Msg(JStr("file"), Data(Absent, Absent, JStr("txt"), Absent))}

CurrentMsgs == TextPayloads \cup ImagePayloads \cup FilePayloads

HistoryMsgs ==
    {JStr("hi"),
     Msg(JStr("text"), JStr("hi")),
     Msg(JStr("text"), Data(JStr("yo"), Absent, Absent, Absent)),
     Msg(JStr("image"), UrlOnly),
     Msg(JStr("file"), Data(Absent, JStr(Url), JStr("txt"), Absent))}

Histories ==
    UNION {[1..n -> {Entry("u0", m) : m \in HistoryMsgs}] : n \in 0..MaxHistory}

Windows ==
    {<<>>} \cup {h \o <<Entry("u1", m)>> : h \in Histories, m \in CurrentMsgs}

Requests ==
    {[json_ok |-> FALSE, payload |-> [kind |-> "dict", contextMessages |-> Absent]]}
    \cup {[json_ok |-> TRUE, payload |-> [kind |-> "dict", contextMessages |-> c]] :
            c \in {Absent, Null} \cup {JList(w) : w \in Windows}}

Categories == {"Hate", "Sexual"}
Severities == {0, 2, 4}
Items == [category : Categories, severity : Severities]

\* the classification results the backend may return
Results == UNION {[1..n -> Items] : n \in 0..MaxCats}

StatusCodes == {200, 204, 404}

----------------------------------------------------------------------------
(* The handler *)

\* payload.get('contextMessages', [])
ContextList == Get(request.payload, "contextMessages", JList(<<>>))

Path == PathOf(msg_type, message_object)

Init ==
    /\ request \in Requests
    /\ pc = "Start"
    /\ message_object = Null
    /\ msg_type = ""
    /\ content = <<>>
    /\ downloads = <<>>
    /\ submitted = <<>>
    /\ result = <<>>
    /\ block_level = <<>>
    /\ violation_found = FALSE
    /\ reason_msg = ""
    /\ returned = <<>>
    /\ propagated = FALSE
    /\ faults = {}

\* an exception reaches the handler's `except Exception`
Raise(fault) ==
    /\ pc' = "Decided"
    /\ returned' = returned \o CriticalError.returned
    /\ propagated' = CriticalError.propagated
    /\ faults' = faults \cup {fault}

\* lines 50-67: parse the body, short-circuit the empty window, find the
\* current message and its kind
Normalize ==
    /\ pc = "Start"
    /\ IF ~request.json_ok
       THEN /\ Raise("bad_json")
            /\ UNCHANGED <<message_object, msg_type, violation_found, reason_msg>>
       ELSE IF ~Truthy(ContextList)
       THEN /\ pc' = "Decided"
            /\ returned' = Append(returned, EmptyResponse)
            /\ UNCHANGED <<message_object, msg_type, violation_found, reason_msg,
                           propagated, faults>>
       ELSE LET context_list == ContextList.items
                last_entry == context_list[Len(context_list)]
            IN  /\ message_object' = last_entry.message
                /\ msg_type' = MsgTypeOf(last_entry.message)
                /\ violation_found' = NoViolation.found
                /\ reason_msg' = NoViolation.reason
                /\ pc' = "Normalized"
                /\ UNCHANGED <<returned, propagated, faults>>
    /\ UNCHANGED <<request, content, downloads, submitted, result, block_level>>

\* lines 72-79, 93-94: PATH A up to the downloaded bytes
ExtractImage ==
    /\ pc = "Normalized"
    /\ Path = "image"
    /\ LET data == Get(message_object, "data", EmptyDict) IN
       IF ~IsDict(data)
       THEN /\ Raise("attribute_error")
            /\ UNCHANGED <<content, downloads>>
       ELSE IF ~Truthy(data.url)
       THEN /\ pc' = "Extracted"
            /\ UNCHANGED <<content, downloads, returned, propagated, faults>>
       ELSE \/ /\ downloads' = Append(downloads, [url |-> data.url.val, status |-> 0])
               /\ Raise("transport")
               /\ UNCHANGED content
            \/ \E status \in StatusCodes, body \in ImageBodies :
                 /\ downloads' = Append(downloads,
                                        [url |-> data.url.val, status |-> status])
                 /\ pc' = "Extracted"
                 /\ IF status = 200
                    THEN content' = <<body>> /\ UNCHANGED faults
                    ELSE /\ faults' = faults \cup {"download_status"}
                         /\ UNCHANGED content
                 /\ UNCHANGED <<returned, propagated>>
    /\ UNCHANGED <<request, message_object, msg_type, submitted, result,
                   block_level, violation_found, reason_msg>>

\* the texts the extractor selected by file_ext may produce, with whether an
\* extraction error was caught (lines 113-129)
Extractions(extractor) ==
    CASE extractor = "pdf" ->
           {[text |-> JoinPages(SubSeq(FirstPages(doc), 1, ok)),
             failed |-> ok < Len(FirstPages(doc))] :
                <<doc, ok>> \in {dk \in Docs \X (0..MaxPages) :
                                   dk[2] <= Len(FirstPages(dk[1]))}}
      [] extractor = "doc" ->
           {[text |-> JoinPages(SubSeq(doc, 1, ok)), failed |-> ok < Len(doc)] :
                <<doc, ok>> \in {dk \in Docs \X (0..MaxDocPages) :
                                   dk[2] <= Len(dk[1])}}
      [] extractor = "txt" -> {[text |-> b, failed |-> FALSE] : b \in TxtBodies}
      [] OTHER -> {[text |-> "", failed |-> FALSE]}

\* lines 99-132: PATH B up to the extracted text
ExtractFile ==
    /\ pc = "Normalized"
    /\ Path = "file"
    /\ LET data == Get(message_object, "data", EmptyDict) IN
       IF ~IsDict(data)
       THEN /\ Raise("attribute_error")
            /\ UNCHANGED <<content, downloads>>
       ELSE LET file_ext == Lower(Get(data, "extension", JStr("")).val) IN
       IF ~Truthy(data.url)
       THEN /\ pc' = "Extracted"
            /\ UNCHANGED <<content, downloads, returned, propagated, faults>>
       ELSE \/ /\ downloads' = Append(downloads, [url |-> data.url.val, status |-> 0])
               /\ Raise("transport")
               /\ UNCHANGED content
            \/ \E status \in StatusCodes :
                 /\ downloads' = Append(downloads,
                                        [url |-> data.url.val, status |-> status])
                 /\ pc' = "Extracted"
                 /\ IF status = 200
                    THEN \E x \in Extractions(ExtractorOf(file_ext)) :
                           /\ content' = IF Strip(x.text) # "" THEN <<x.text>> ELSE <<>>
                           /\ faults' = IF x.failed THEN faults \cup {"extraction"}
                                        ELSE faults
                    ELSE /\ faults' = faults \cup {"download_status"}
                         /\ UNCHANGED content
                 /\ UNCHANGED <<returned, propagated>>
    /\ UNCHANGED <<request, message_object, msg_type, submitted, result,
                   block_level, violation_found, reason_msg>>

\* lines 144-156: PATH C up to the accumulated text
ExtractText ==
    /\ pc = "Normalized"
    /\ Path = "text"
    /\ LET combined == CombineText(ContextList.items) IN
       IF combined.exc
       THEN /\ Raise("attribute_error")
            /\ UNCHANGED content
       ELSE /\ content' = IF Strip(combined.text) # "" THEN <<combined.text>> ELSE <<>>
            /\ pc' = "Extracted"
            /\ UNCHANGED <<returned, propagated, faults>>
    /\ UNCHANGED <<request, message_object, msg_type, downloads, submitted, result,
                   block_level, violation_found, reason_msg>>

\* variant: the backend call is tried again after HttpResponseError
RetryAfterHttpResponseError == "Extracted"

\* where the handler continues after `except HttpResponseError` logged the error
AfterHttpResponseError == "Classified"

\* lines 80-92, 133-139, 158-163: the backend call and analyze_severity
Classify ==
    /\ pc = "Extracted"
    /\ content # <<>>
    /\ submitted' = Append(submitted,
                           [api |-> ApiOf(Path),
                            content |-> IF Path = "image" THEN content[1]
                                        ELSE Truncate(content[1])])
    /\ \/ \E r \in Results :
            LET verdict == analyze_severity(r, BlockLevelOf(Path)) IN
            /\ result' = <<r>>
            /\ block_level' = <<BlockLevelOf(Path)>>
            /\ violation_found' = verdict.found
            /\ reason_msg' = verdict.reason
            /\ pc' = "Classified"
            /\ UNCHANGED <<returned, propagated, faults>>
       \/ /\ faults' = faults \cup {"backend"}
          /\ pc' = AfterHttpResponseError
          /\ UNCHANGED <<result, block_level, violation_found, reason_msg,
                         returned, propagated>>
       \/ /\ Raise("backend_other")
          /\ UNCHANGED <<result, block_level, violation_found, reason_msg>>
    /\ UNCHANGED <<request, message_object, msg_type, content, downloads>>

\* lines 168-184: the return decision
Decide ==
    /\ \/ pc = "Classified"
       \/ pc = "Extracted" /\ content = <<>>
    /\ returned' = Append(returned, FinalResponse(violation_found, reason_msg))
    /\ pc' = "Decided"
    /\ UNCHANGED <<request, message_object, msg_type, content, downloads, submitted,
                   result, block_level, violation_found, reason_msg, propagated,
                   faults>>

Next ==
    \/ Normalize
    \/ ExtractImage
    \/ ExtractFile
    \/ ExtractText
    \/ Classify
    \/ Decide

Spec == Init /\ [][Next]_vars

\* every call the handler makes returns or raises, so the handler keeps going
FairSpec == Spec /\ WF_vars(Next)

----------------------------------------------------------------------------
(* Properties *)

Responded == pc = "Decided" /\ Len(returned) = 1

Blocked == Responded /\ returned[1].isMatchingCondition

Allowed == Responded /\ ~returned[1].isMatchingCondition

\* the faults after which the handler must answer "allow"
FailOpenFaults ==
    {"backend", "backend_other", "download_status", "transport",
     "attribute_error", "bad_json"}

\* C1 (as stated): whenever any failure or exception occurred during the
\* request, nothing propagates and the response is isMatchingCondition=false.
C1_FailOpenAnyException ==
    /\ ~propagated
    /\ (pc = "Decided" /\ faults # {}) => Allowed

\* C1 (amended): after a backend failure, a failed download (non-200 status or
\* transport exception) or any exception that is not handled inside an
\* extractor, nothing propagates and the response is isMatchingCondition=false.
C1_FailOpen ==
    /\ ~propagated
    /\ (pc = "Decided" /\ faults \cap FailOpenFaults # {}) => Allowed

C1_Witness ==
    /\ Allowed
    /\ "backend" \in faults
    /\ Path = "image"
    /\ Len(downloads) = 1

\* the request carries no window: contextMessages absent or an empty list
NoWindow ==
    /\ request.json_ok
    /\ \/ request.payload.contextMessages.kind = "absent"
       \/ /\ request.payload.contextMessages.kind = "list"
          /\ request.payload.contextMessages.items = <<>>

\* C2: a request without contextMessages, or with an empty list, is answered
\* isMatchingCondition=false straight from Start: nothing is normalized,
\* downloaded or sent to the backend.
C2_EmptyWindow ==
    NoWindow =>
        /\ pc \in {"Start", "Decided"}
        /\ message_object = Null /\ msg_type = ""
        /\ content = <<>> /\ downloads = <<>> /\ submitted = <<>>
        /\ ~propagated
        /\ pc = "Decided" => Allowed

C2_Witness ==
    /\ request.json_ok
    /\ request.payload.contextMessages.kind = "list"
    /\ request.payload.contextMessages.items = <<>>
    /\ Allowed

\* indices of the categories of r at or above threshold t
Qualifying(r, t) == {i \in 1..Len(r) : r[i].severity >= t}

FirstQualifying(r, t) ==
    CHOOSE i \in Qualifying(r, t) : \A j \in Qualifying(r, t) : i <= j

\* thresholds analyze_severity is tried with as a function of its arguments
Thresholds == 0..7

\* analyze_severity on every result and every threshold: found iff some
\* category qualifies, and then the reason is the first qualifying one's
DecisionRuleOfFunction ==
    \A r \in Results, t \in Thresholds :
        LET v == analyze_severity(r, t) IN
        /\ v.found <=> Qualifying(r, t) # {}
        /\ v.found =>
             LET item == r[FirstQualifying(r, t)] IN
             v.reason = item.category \o " (Level "
                          \o ToString(item.severity) \o ")"
        /\ ~v.found => v.reason = ""

C4_ThresholdPolicy ==
    /\ block_level # <<>> =>
         block_level[1] = (IF Path = "image" THEN 2 ELSE 4)
    /\ (/\ Responded /\ Path = "file" /\ result # <<>>
        /\ \A i \in 1..Len(result[1]) : result[1][i].severity < 4) => Allowed

\* C5: the text sent to the backend on the text path and on the file path is
\* the accumulated/extracted text if that has at most MaxChars characters, and
\* exactly its first MaxChars characters otherwise.
C5_Truncation ==
    \A i \in 1..Len(submitted) :
        submitted[i].api = "analyze_text" =>
            LET full == content[1]
                sent == submitted[i].content
            IN  /\ Len(sent) <= MaxChars
                /\ Len(full) <= MaxChars => sent = full
                /\ Len(full) > MaxChars =>
                     /\ Len(sent) = MaxChars
                     /\ sent = SubSeq(full, 1, MaxChars)

C5_Witness ==
    /\ Path = "file"
    /\ Len(submitted) = 1
    /\ Len(content[1]) = MaxChars + 1
    /\ Len(submitted[1].content) = MaxChars
    /\ submitted[1].content \o "z" = content[1]

\* the kind the current message must get: text for a bare string, else its
\* `type`, else its nested `data.type`, else text
KindWithFallback(m) ==
    IF m.kind # "dict" THEN "text"
    ELSE IF m.type.kind = "str" THEN m.type.val
    ELSE IF m.data.kind = "dict" /\ m.data.type.kind = "str" THEN m.data.type.val
    ELSE "text"

\* C6: the current message is the payload of the last window entry and its
\* kind is text for a bare string, else `type`, else the nested `data.type`
\* when `type` is absent, else text.
C6_KindDetermination ==
    pc = "Normalized" =>
        LET items == request.payload.contextMessages.items IN
        /\ message_object = items[Len(items)].message
        /\ msg_type = KindWithFallback(message_object)

\* a structured text payload whose `data` is a bare string
BareStringData(m) ==
    /\ m.kind = "dict"
    /\ m.type.kind = "absent" \/ m.type = JStr("text")
    /\ m.data.kind = "str"

\* C7: on the text path a window that holds a structured text payload whose
\* `data` is the bare string s is classified, and "<s>. " is part of the
\* submitted text.
C7_BareStringDataClassified ==
    (pc = "Decided" /\ msg_type # "" /\ Path = "text") =>
        LET items == request.payload.contextMessages.items IN
        \A i \in 1..Len(items) :
            BareStringData(items[i].message) =>
                /\ Len(submitted) = 1
                /\ Contains(submitted[1].content, items[i].message.data.val \o ". ")

\* a structured payload of type image or file
IsAttachment(m) ==
    m.kind = "dict" /\ (m.type = JStr("image") \/ m.type = JStr("file"))

IsMessageEntry(e) == ~IsAttachment(e.message)

\* C8: on the text path the submitted text is the one accumulated from the
\* window with its image and file entries removed.
C8_AttachmentsSkipped ==
    (msg_type # "" /\ Path = "text" /\ Len(submitted) = 1) =>
        LET items == request.payload.contextMessages.items
            kept == CombineText(SelectSeq(items, IsMessageEntry))
        IN  /\ ~kept.exc
            /\ submitted[1].content = SubSeq(kept.text, 1, Min(MaxChars, Len(kept.text)))

Rank(p) ==
    CASE p = "Start" -> 0
      [] p = "Normalized" -> 1
      [] p = "Extracted" -> 2
      [] p = "Classified" -> 3
      [] p = "Decided" -> 4

C10_BlockOnlyAfterClassification ==
    /\ ~propagated
    /\ pc = "Decided" =>
         /\ Len(returned) = 1
         /\ returned[1].isMatchingCondition =>
              /\ Len(submitted) = 1
              /\ result # <<>>
              /\ \E i \in 1..Len(result[1]) :
                    result[1][i].severity >= block_level[1]

C10_Witness ==
    /\ Allowed
    /\ msg_type = "image"
    /\ message_object.kind = "dict"
    /\ message_object.data.kind = "absent"
    /\ downloads = <<>>
    /\ submitted = <<>>

====
